---- MODULE Spec2Model ----
(***************************************************************************)
(* OracleBot: the market monitors (bot/marketMonitor.js and                *)
(* bot/polymarketMonitor.js) as one state machine.                         *)
(*                                                                         *)
(* A step of the machine is one run-to-completion turn of the JavaScript   *)
(* event loop: an event handler or the continuation of an async function,  *)
(* from the point where it is resumed to its next await (or its end).      *)
(*                                                                         *)
(* Numbers.  eta and lambda are fixed-point integers in thousandths        *)
(* (0.707 is 707); delta is the integer the contract returns (delta*1000); *)
(* efficiency is the contract's integer (fraction * 1e9); the running      *)
(* means are exact rationals <<numerator, denominator>>.  NaN is a         *)
(* distinguished value.                                                    *)
(***************************************************************************)
EXTENDS Integers, Sequences, FiniteSets, TLC

(* ------------------------------ bounds -------------------------------- *)
\* push mode: ticker messages with a price (message cycles) in one run
MaxCycles == 2
\* pull mode: poll iterations in one run
MaxPolls == 3
\* push mode: WebSocket objects created in one run
MaxConns == 2
\* capacity of priceHistory used in the runs (options.maxHistorySize)
HistorySize == 1
\* history runs: largest capacity, and prices appended in one run
MaxCapacity == 3
MaxPushes == 5
\* statistics runs: results applied in one run
MaxResults == 3
\* estimator runs: longest history given to the estimators
MaxHistoryLen == 21
\* health-check runs: health checks begun, and calls of start(), in one run
MaxChecks == 4
MaxStarts == 2

(* ---------------------------- number domain --------------------------- *)
\* the value parseFloat gives for a string that is no number
NaN == 0 - 1
\* thousandths per unit: 0.707 is 707
Unit == 10 * 100
\* the factor from thousandths to the contract's 1e9 scale
ToContractScale == Unit * Unit

IsNaN(x) == x = NaN

\* a price kept as text: Text(p) is the string p.toFixed(3), as
\* generateSimulatedMarket writes tokens[].price
TextBase == Unit * Unit
Text(p) == TextBase + p
IsText(x) == x >= TextBase
\* the number that -, / and Math.abs make of a price, text or not
Num(x) == IF IsText(x) THEN x - TextBase ELSE x

Abs(x) == IF x < 0 THEN 0 - x ELSE x
Min(a, b) == IF a < b THEN a ELSE b
Max(a, b) == IF a > b THEN a ELSE b

RECURSIVE GCD(_, _)
GCD(a, b) == IF b = 0 THEN a ELSE GCD(b, a % b)

\* the rational n/d in lowest terms, d > 0
Rat(n, d) ==
    LET g == GCD(Abs(n), Abs(d))
        s == IF d < 0 THEN 0 - 1 ELSE 1
    IN  IF g = 0 THEN <<0, 1>> ELSE <<s * (n \div g), s * (d \div g)>>
RatAdd(p, q) == Rat(p[1] * q[2] + q[1] * p[2], p[2] * q[2])
RatMulInt(p, k) == Rat(p[1] * k, p[2])
RatDivInt(p, k) == Rat(p[1], p[2] * k)
RatOfInt(k) == <<k, 1>>

(* ------------------------ program constants --------------------------- *)
\* calculateEta / calculateLambda / calculateLambdaFromMomentum defaults
NeutralDefault == 707
ClampLo == 100
ClampHi == 950
\* setTimeout(() => this.monitorBinance(symbol), 5000)
ReconnectDelay == 5000
\* options.updateInterval || 1000 (MarketMonitor), || 5000 (PolymarketMonitor)
UpdateIntervalMarket == 1000
UpdateIntervalPolymarket == 5000
\* if (priceHistory.length < 10) return 0.707
EtaMinHistory == 10
\* if (priceHistory.length < 20) return 0.707; priceHistory.slice(-20)
MomentumWindow == 20
\* displayReading: result.deltaDecimal > 0.2, deltaDecimal = delta / 1000
HealthyAbove == 200

(* ----------------------------- estimators ----------------------------- *)
\* returns are kept in units of 1e-5; 100 * volatility reaches 1 at SatVol
SatVol == Unit
ReturnScale == 100 * Unit
\* saturating sum of squares: exact below SumCap, and every sum at or above
\* SatVol * SatVol * (number of returns) gives normalizedVol = 1 anyway
SumCap == 2 * Unit * Unit * Unit
DevCap == 44 * Unit
SatAdd(a, b) == IF a > SumCap - b THEN SumCap ELSE a + b
ISqrt(n) == CHOOSE k \in 0..SatVol : k * k <= n /\ (k + 1) * (k + 1) > n

RECURSIVE SeqSum(_)
SeqSum(s) == IF s = <<>> THEN 0 ELSE Head(s) + SeqSum(Tail(s))
RECURSIVE SqDevSum(_, _)
SqDevSum(s, mean) ==
    IF s = <<>> THEN 0
    ELSE LET d == Min(Abs(Head(s) - mean), DevCap)
         IN  SatAdd(d * d, SqDevSum(Tail(s), mean))

Clamp(x) == Max(ClampLo, Min(ClampHi, x))

\* volatility * 100 in thousandths (Math.sqrt(variance)), exact up to SatVol
Volatility(returns) ==
    LET n == Len(returns)
        meanReturn == SeqSum(returns) \div n
        sq == SqDevSum(returns, meanReturn)
        variance == IF sq >= SatVol * SatVol * n THEN SatVol * SatVol ELSE sq \div n
    IN  ISqrt(variance)

\* 0.3 + 0.6 / (1 + normalizedVol * 10), normalizedVol = min(volatility * 100, 1)
EtaOfReturnsDirect(returns) ==
    LET normalizedVol == Min(Volatility(returns), SatVol)
    IN  Clamp(300 + (600 * normalizedVol) \div Unit)
EtaOfReturns(returns) ==
    LET normalizedVol == Min(Volatility(returns), SatVol)
    IN  Clamp(300 + (600 * Unit) \div (Unit + 10 * normalizedVol))

\* ret = (p[i] - p[i-1]) / p[i-1] for the prices of a history without NaN
\* and without a zero divisor
Returns(priceHistory) ==
    [i \in 1..(Len(priceHistory) - 1) |->
        ((Num(priceHistory[i + 1]) - Num(priceHistory[i])) * ReturnScale)
            \div Num(priceHistory[i])]

\* MarketMonitor.calculateEta: ret = (p[i] - p[i-1]) / p[i-1]; a NaN price,
\* or a zero price used as a divisor, makes every later value NaN, and
\* Math.max(0.1, Math.min(0.95, NaN)) is NaN
calculateEtaFromTwo(priceHistory) ==
    IF Len(priceHistory) < 2 THEN NeutralDefault
    ELSE IF \/ \E i \in 1..Len(priceHistory) : IsNaN(priceHistory[i])
            \/ \E i \in 1..(Len(priceHistory) - 1) : Num(priceHistory[i]) = 0
         THEN NaN
         ELSE EtaOfReturns(Returns(priceHistory))
calculateEta(priceHistory) ==
    IF Len(priceHistory) < 10 THEN NeutralDefault
    ELSE IF \/ \E i \in 1..Len(priceHistory) : IsNaN(priceHistory[i])
            \/ \E i \in 1..(Len(priceHistory) - 1) : Num(priceHistory[i]) = 0
         THEN NaN
         ELSE EtaOfReturns(Returns(priceHistory))

\* PolymarketMonitor.calculateEta: the divisor is p[i-1] + 1e-10, so a zero
\* price gives a huge finite return (0 when the next price is 0 as well); on
\* a text price + concatenates ("0.500" + 1e-10 is "0.5001e-10", about
\* 5e-11 as a divisor), with the same effect
calculateEtaPolymarket(priceHistory) ==
    IF Len(priceHistory) < 10 THEN NeutralDefault
    ELSE IF \E i \in 1..Len(priceHistory) : IsNaN(priceHistory[i])
         THEN NaN
         ELSE EtaOfReturns([i \in 1..(Len(priceHistory) - 1) |->
                  LET prev == Num(priceHistory[i])
                      next == Num(priceHistory[i + 1])
                  IN  IF prev = 0 \/ IsText(priceHistory[i])
                      THEN (IF next = prev THEN 0
                            ELSE IF next > prev THEN 2 * DevCap ELSE 0 - 2 * DevCap)
                      ELSE ((next - prev) * ReturnScale) \div prev])

\* MarketMonitor.calculateLambdaFromMomentum
calculateLambdaFromMomentum(priceHistory) ==
    IF Len(priceHistory) < MomentumWindow THEN NeutralDefault
    ELSE LET first == Num(priceHistory[Len(priceHistory) - MomentumWindow + 1])
             last == Num(priceHistory[Len(priceHistory)])
         IN  IF IsNaN(first) \/ IsNaN(last) \/ (first = 0 /\ last = 0) THEN NaN
             ELSE IF first = 0 THEN Clamp(300 + 600)
             ELSE Clamp(300 + Min((5 * Abs(last - first) * Unit) \div first, 600))

\* PolymarketMonitor.calculateLambdaFromMomentum: the divisor is
\* recent[0] + 1e-10, which on a text price concatenates to a divisor of
\* about 1e-10 times the price
calculateLambdaFromMomentumPolymarket(priceHistory) ==
    IF Len(priceHistory) < MomentumWindow THEN NeutralDefault
    ELSE LET first == Num(priceHistory[Len(priceHistory) - MomentumWindow + 1])
             last == Num(priceHistory[Len(priceHistory)])
             tiny == first = 0
                        \/ IsText(priceHistory[Len(priceHistory) - MomentumWindow + 1])
         IN  IF IsNaN(first) \/ IsNaN(last) THEN NaN
             ELSE IF tiny THEN (IF last = first THEN Clamp(300) ELSE Clamp(300 + 600))
             ELSE Clamp(300 + Min((5 * Abs(last - first) * Unit) \div first, 600))

\* calculateLambda with the coupling taken from the imbalance alone
calculateLambdaPolymarketNoSpread(yesVolume, noVolume, yesPrice, noPrice) ==
    IF yesVolume = 0 /\ noVolume = 0 THEN NeutralDefault
    ELSE Clamp(300 + (((Abs(yesVolume - noVolume) * Unit) \div (yesVolume + noVolume))
                          * 600) \div Unit)

\* PolymarketMonitor.calculateLambda(yesVolume, noVolume, yesPrice, noPrice);
\* volumes are non-negative numbers, prices are in thousandths
calculateLambdaPolymarket(yesVolume, noVolume, yesPrice, noPrice) ==
    IF yesVolume = 0 /\ noVolume = 0 THEN NeutralDefault
    ELSE LET totalVolume == yesVolume + noVolume
             imbalance == IF totalVolume > 0
                          THEN (Abs(yesVolume - noVolume) * Unit) \div totalVolume
                          ELSE 0
             priceSpread == Abs(yesPrice - noPrice)
             spreadFactor == Max(0, Unit - priceSpread * 2)
             couplingStrength == (imbalance + spreadFactor) \div 2
         IN  Clamp(300 + (couplingStrength * 600) \div Unit)

\* MarketMonitor.calculateLambda(bidVolume, askVolume): the divisor is
\* bid + ask + 1e-10; a NaN volume gives NaN
calculateLambda(bidVolume, askVolume) ==
    IF bidVolume = 0 /\ askVolume = 0 THEN NeutralDefault
    ELSE IF IsNaN(bidVolume) \/ IsNaN(askVolume) THEN NaN
    ELSE Clamp(300 + (((Abs(bidVolume - askVolume) * Unit) \div (bidVolume + askVolume))
                          * 600) \div Unit)

\* the sizes of the orders of a side, summed: parseFloat(o.size || 0)
RECURSIVE SideVolume(_, _)
SideVolume(orders, sides) ==
    IF orders = <<>> THEN 0
    ELSE LET rest == SideVolume(Tail(orders), sides)
         IN  IF Head(orders).side \notin sides THEN rest
             ELSE IF IsNaN(Head(orders).size) \/ IsNaN(rest) THEN NaN
             ELSE Head(orders).size + rest

\* PolymarketMonitor.calculateLambdaFromOrderbook(orders)
calculateLambdaFromOrderbook(orders) ==
    IF orders = <<>> THEN NeutralDefault
    ELSE LET bidVolume == SideVolume(orders, {"buy", "bid", "yes"})
             askVolume == SideVolume(orders, {"sell", "ask", "no"})
         IN  IF bidVolume = 0 /\ askVolume = 0 THEN NeutralDefault
             ELSE IF IsNaN(bidVolume) \/ IsNaN(askVolume) THEN NaN
             ELSE Clamp(300 + (((Abs(bidVolume - askVolume) * Unit)
                                   \div (bidVolume + askVolume)) * 600) \div Unit)

\* Math.floor(x * 1e9); NaN stays NaN
Scaled(x) == IF IsNaN(x) THEN NaN ELSE x * ToContractScale

(* ------------------------------- inputs ------------------------------- *)
\* what parseFloat(ticker.c) gives for the ticker messages of the runs
TickerPrices == {NaN, 100}
\* a push message: json = JSON.parse succeeds; c = <<>> when ticker.c is
\* absent or empty (falsy), else <<parseFloat(ticker.c)>>
TickerPayloads ==
    {[json |-> FALSE, c |-> <<>>], [json |-> TRUE, c |-> <<>>]}
        \cup {[json |-> TRUE, c |-> <<p>>] : p \in TickerPrices}
\* what a REST response gives for price: NaN also stands for undefined
RestPrices == {NaN, 0, 100, 110}
RestSources == {"binance", "polygon", "alphavantage"}
\* orderbook volumes (collateralBuyVolume, collateralSellVolume) after parseFloat
Volumes == {0, 600}
\* recentPrice of fetchPolymarketMarket, in thousandths (0.5 is the default)
RecentPrices == {500, 800}
\* tokens[0].price of generateSimulatedMarket, in thousandths
SimulatedPrices == {450, 550}
\* what the contract returns: computeDelta gives one of Deltas; efficiency is a
\* view function of delta (81% at 230); isOptimal is left open
Deltas == {150, 230}
ContractEfficiency(delta) == IF delta = 230 THEN 810000000 ELSE 500000000

(* -------------------------------- state ------------------------------- *)
VARIABLES
    mode,          \* entry point of the run: "none" before it is called
    source,        \* monitorRestAPI's source argument
    apiKey,        \* process.env.POLYGON_API_KEY is set
    isRunning,     \* this.isRunning
    priceHistory,  \* this.priceHistory
    stats,         \* this.stats
    conns,         \* push: the WebSocket objects created, in creation order
    timers,        \* pending setTimeout callbacks
    tasks,         \* async handlers suspended at an await, by cycle number
    nCycles,       \* cycles (message cycles, poll iterations) started so far
    alerts,        \* calls of alertCriticalEquilibrium so far
    stopCalled,    \* stop() has been called
    last,          \* the step that led to the current state
    maxHistorySize,\* this.maxHistorySize
    pushed,        \* history runs: every price appended so far, oldest first
    applied,       \* statistics runs: every result given to updateStats so far
    est,           \* estimator runs: what the estimators returned, <<>> before
    shown,         \* statistics runs: the status displayReading printed, per result
    tester,        \* test runs: the OracleTester and the position of runAllTests
    monitor        \* health-check runs: the OracleMonitor, its timers and checks

vars == <<mode, source, apiKey, isRunning, priceHistory, stats, conns, timers,
          tasks, nCycles, alerts, stopCalled, last, maxHistorySize, pushed,
          applied, est, shown, tester, monitor>>

\* what no step of a monitoring run changes
Idle == UNCHANGED <<maxHistorySize, pushed, applied, est, shown, tester, monitor>>

OracleCalls == {"computeDelta", "efficiency", "isOptimal"}
FetchSteps == {"fetch", "json", "obFetch", "obJson", "evFetch", "evJson"}

\* op: what ran; id: the cycle or connection it ran for; pc: the await a
\* finished cycle was at; opt: the isOptimal of its result
Event(op, id) == [op |-> op, id |-> id, pc |-> "none", opt |-> FALSE]

Without(f, id) == [i \in DOMAIN f \ {id} |-> f[i]]
RemoveAt(s, i) == [j \in 1..(Len(s) - 1) |-> IF j < i THEN s[j] ELSE s[j + 1]]

\* new OracleTester(): results = [], runAllTests not yet called
NewTester == [pc |-> "new", index |-> 0, delta |-> 0, efficiency |-> 0, results |-> <<>>]

\* new OracleMonitor(): isRunning = false, runCount = 0, intervalId not set (0);
\* intervals holds the ids of the setInterval timers not cleared, checks the
\* runSingleTest calls in flight; started counts the health checks begun,
\* failures those that returned false, and halted tells that stop() has
\* returned and start() has not been called since
NewMonitor ==
    [pc |-> "idle", isRunning |-> FALSE, runCount |-> 0, intervalId |-> 0,
     created |-> 0, intervals |-> {}, checks |-> <<>>, started |-> 0, failures |-> 0,
     halted |-> FALSE]

\* constructor, with options.maxHistorySize = capacity
Constructed(capacity) ==
    /\ maxHistorySize = capacity
    /\ mode = "none"
    /\ source = "none"
    /\ apiKey = FALSE
    /\ isRunning = FALSE
    /\ priceHistory = <<>>
    /\ stats = [readings |-> 0, optimalCount |-> 0,
                avgDelta |-> RatOfInt(0), avgEfficiency |-> RatOfInt(0)]
    /\ conns = <<>>
    /\ timers = <<>>
    /\ tasks = <<>>
    /\ nCycles = 0
    /\ alerts = 0
    /\ stopCalled = FALSE
    /\ last = Event("init", 0)

Init ==
    /\ Constructed(HistorySize)
    /\ pushed = <<>>
    /\ applied = <<>>
    /\ est = <<>>
    /\ shown = <<>>
    /\ tester = NewTester
    /\ monitor = NewMonitor

(* --------------------------- cycle fragments -------------------------- *)
\* this.priceHistory.push(price); if (length > maxHistorySize) shift()
pushPriceNoEvict(history, price) == Append(history, price)
pushPriceEvictNewest(history, price) ==
    LET h == Append(history, price)
    IN  IF Len(h) > maxHistorySize THEN history ELSE h
pushPrice(history, price) ==
    LET h == Append(history, price)
    IN  IF Len(h) > maxHistorySize THEN Tail(h) ELSE h

\* the order of the awaits in computeOracleDelta
CallAfterSwapped(fn) ==
    CASE fn = "computeDelta" -> "isOptimal"
      [] fn = "isOptimal" -> "efficiency"
      [] OTHER -> "done"
CallAfter(fn) ==
    CASE fn = "computeDelta" -> "efficiency"
      [] fn = "efficiency" -> "isOptimal"
      [] OTHER -> "done"

\* the arguments computeOracleDelta passes to a contract function
CallArgs(t, fn) ==
    IF fn = "computeDelta" THEN <<Scaled(t.eta), Scaled(t.lambda)>> ELSE <<t.delta>>

\* issuing one contract call: the handler is suspended at its await
IssueTwice(t, fn) ==
    [t EXCEPT !.pc = fn,
              !.calls = @ \o <<[fn |-> fn, args |-> CallArgs(t, fn), ret |-> <<>>],
                               [fn |-> fn, args |-> CallArgs(t, fn), ret |-> <<>>]>>]
Issue(t, fn) ==
    [t EXCEPT !.pc = fn,
              !.calls = Append(@, [fn |-> fn, args |-> CallArgs(t, fn), ret |-> <<>>])]

\* the awaited call returns v
Returned(t, v) ==
    LET n == Len(t.calls)
        u == [t EXCEPT !.calls[n].ret = <<v>>]
    IN  CASE t.pc = "computeDelta" -> [u EXCEPT !.delta = v]
          [] t.pc = "efficiency" -> [u EXCEPT !.eff = v]
          [] OTHER -> [u EXCEPT !.opt = v]

\* the object computeOracleDelta returns; deltaDecimal is delta / 1000 and
\* efficiencyPercent is efficiency / 1e9 * 100
Result(t) ==
    [delta |-> t.delta, efficiency |-> t.eff,
     efficiencyPercent |-> Rat(t.eff, 10 * ToContractScale),
     isOptimal |-> t.opt, eta |-> t.eta, lambda |-> t.lambda]

\* what computeOracleDelta's catch block returns: null
CatchResultPartial(t) == <<Result(t)>>
CatchResult(t) == <<>>

updateStatsCountAll(st, result) ==
    LET n == st.readings + 1
    IN  [readings |-> n,
         avgDelta |-> RatDivInt(RatAdd(RatMulInt(st.avgDelta, n - 1),
                                       RatOfInt(result.delta)), n),
         avgEfficiency |-> RatDivInt(RatAdd(RatMulInt(st.avgEfficiency, n - 1),
                                            result.efficiencyPercent), n),
         optimalCount |-> st.optimalCount + 1]
updateStatsWeighted(st, result) ==
    LET n == st.readings + 1
    IN  [readings |-> n,
         avgDelta |-> RatDivInt(RatAdd(RatMulInt(st.avgDelta, n),
                                       RatOfInt(result.delta)), n),
         avgEfficiency |-> RatDivInt(RatAdd(RatMulInt(st.avgEfficiency, n),
                                            result.efficiencyPercent), n),
         optimalCount |-> IF result.isOptimal THEN st.optimalCount + 1
                          ELSE st.optimalCount]
updateStatsDecay(st, result) ==
    LET n == st.readings + 1
    IN  [readings |-> n,
         avgDelta |-> RatDivInt(RatAdd(RatMulInt(st.avgDelta, n - 1),
                                       RatOfInt(result.delta)), n),
         avgEfficiency |-> RatDivInt(RatAdd(RatMulInt(st.avgEfficiency, n - 1),
                                            result.efficiencyPercent), n),
         optimalCount |-> IF result.isOptimal THEN st.optimalCount + 1
                          ELSE Max(st.optimalCount - 1, 0)]
updateStats(st, result) ==
    LET n == st.readings + 1
    IN  [readings |-> n,
         avgDelta |-> RatDivInt(RatAdd(RatMulInt(st.avgDelta, n - 1),
                                       RatOfInt(result.delta)), n),
         avgEfficiency |-> RatDivInt(RatAdd(RatMulInt(st.avgEfficiency, n - 1),
                                            result.efficiencyPercent), n),
         optimalCount |-> IF result.isOptimal THEN st.optimalCount + 1
                          ELSE st.optimalCount]

\* if (result.isOptimal) this.alertCriticalEquilibrium(...)
ShouldAlertHealthy(result) == result.isOptimal \/ result.delta > 200
ShouldAlert(result) == result.isOptimal

UpdateInterval(m) == IF m = "rest" THEN UpdateIntervalMarket ELSE UpdateIntervalPolymarket

\* if (this.isRunning) setTimeout(poll, this.updateInterval)
ScheduleNextTwice(tms, running, delay) ==
    IF running THEN tms \o <<[fn |-> "poll", delay |-> delay], [fn |-> "poll", delay |-> delay]>>
    ELSE tms
ScheduleNext(tms, running, delay) ==
    IF running THEN Append(tms, [fn |-> "poll", delay |-> delay]) ELSE tms

\* if (this.isRunning) setTimeout(() => this.monitorBinance(symbol), 5000)
ScheduleReconnectAlways(tms, running) ==
    Append(tms, [fn |-> "monitorBinance", delay |-> ReconnectDelay])
ScheduleReconnect(tms, running) ==
    IF running THEN Append(tms, [fn |-> "monitorBinance", delay |-> ReconnectDelay])
    ELSE tms

NewTask(kind) ==
    [kind |-> kind, pc |-> "start", eta |-> NaN, lambda |-> NaN,
     delta |-> 0, eff |-> 0, opt |-> FALSE, calls |-> <<>>,
     hasOb |-> FALSE, bid |-> 0, ask |-> 0]

\* the status displayReading prints (the same expression in both monitors)
displayStatusInclusive(result) ==
    IF result.isOptimal THEN "optimal"
    ELSE IF result.delta >= HealthyAbove THEN "healthy" ELSE "suboptimal"
displayStatus(result) ==
    IF result.isOptimal THEN "optimal"
    ELSE IF result.delta > HealthyAbove THEN "healthy" ELSE "suboptimal"

\* from the estimators to the first await of computeOracleDelta
BeginCycleDefaults(t, eta, lambda) ==
    Issue([t EXCEPT !.eta = NeutralDefault, !.lambda = NeutralDefault], "computeDelta")
BeginCycle(t, eta, lambda) ==
    Issue([t EXCEPT !.eta = eta, !.lambda = lambda], "computeDelta")

\* the handler after `const result = await this.computeOracleDelta(eta, lambda)`:
\* if (result) { updateStats; displayReading; if (result.isOptimal) alert }
\* and, in a poll iteration, the scheduling of the next one
Finish(id, t, result, op) ==
    /\ tasks' = Without(tasks, id)
    /\ IF result # <<>>
       THEN /\ stats' = updateStats(stats, result[1])
            /\ alerts' = IF ShouldAlert(result[1]) THEN alerts + 1 ELSE alerts
       ELSE UNCHANGED <<stats, alerts>>
    /\ timers' = IF t.kind = "poll"
                 THEN ScheduleNext(timers, isRunning, UpdateInterval(mode))
                 ELSE timers
    /\ last' = [op |-> op, id |-> id, pc |-> t.pc,
                 opt |-> result # <<>> /\ result[1].isOptimal]
    /\ UNCHANGED <<mode, source, apiKey, isRunning, priceHistory, conns, nCycles,
                   stopCalled>>

(* ------------------------- the contract calls ------------------------- *)
ReturnValues(t) ==
    CASE t.pc = "computeDelta" -> Deltas
      [] t.pc = "efficiency" -> {ContractEfficiency(t.calls[Len(t.calls)].args[1])}
      [] OTHER -> BOOLEAN

\* the awaited contract call of cycle id returns a value
OracleReturn(id) ==
    /\ id \in DOMAIN tasks
    /\ tasks[id].pc \in OracleCalls
    /\ \A i \in 1..Len(tasks[id].calls) :
           \A j \in 1..Len(tasks[id].calls[i].args) : ~IsNaN(tasks[id].calls[i].args[j])
    /\ \E v \in ReturnValues(tasks[id]) :
         LET t == Returned(tasks[id], v)
             next == CallAfter(tasks[id].pc)
         IN  IF next = "done"
             THEN Finish(id, t, <<Result(t)>>, "result")
             ELSE /\ tasks' = [tasks EXCEPT ![id] = Issue(t, next)]
                  /\ last' = Event("oracle", id)
                  /\ UNCHANGED <<mode, source, apiKey, isRunning, priceHistory, stats,
                                 conns, timers, nCycles, alerts, stopCalled>>

\* the awaited contract call of cycle id fails (network fault or revert)
OracleFail(id) ==
    /\ id \in DOMAIN tasks
    /\ tasks[id].pc \in OracleCalls
    /\ Finish(id, tasks[id], CatchResult(tasks[id]), "failed")

(* ------------------------------ push mode ----------------------------- *)
\* monitorBinance(symbol), called by main
MonitorBinance ==
    /\ mode = "none"
    /\ mode' = "ws"
    /\ conns' = <<"connecting">>
    /\ last' = Event("monitor", 1)
    /\ UNCHANGED <<source, apiKey, isRunning, priceHistory, stats, timers, tasks,
                   nCycles, alerts, stopCalled>>

\* the reconnect timer fires: monitorBinance(symbol) again
ReconnectTimer(i) ==
    /\ i \in 1..Len(timers)
    /\ timers[i].fn = "monitorBinance"
    /\ Len(conns) < MaxConns
    /\ timers' = RemoveAt(timers, i)
    /\ conns' = Append(conns, "connecting")
    /\ last' = Event("reconnect", Len(conns) + 1)
    /\ UNCHANGED <<mode, source, apiKey, isRunning, priceHistory, stats, tasks,
                   nCycles, alerts, stopCalled>>

\* ws.on('open')
WsOpen(c) ==
    /\ c \in 1..Len(conns)
    /\ conns[c] = "connecting"
    /\ conns' = [conns EXCEPT ![c] = "open"]
    /\ isRunning' = TRUE
    /\ last' = Event("open", c)
    /\ UNCHANGED <<mode, source, apiKey, priceHistory, stats, timers, tasks, nCycles,
                   alerts, stopCalled>>

\* ws.on('message'), up to the await of computeOracleDelta
WsMessage(c, payload) ==
    /\ c \in 1..Len(conns)
    /\ conns[c] = "open"
    /\ payload \in TickerPayloads
    /\ IF payload.json /\ payload.c # <<>>
       THEN /\ nCycles < MaxCycles
            /\ LET price == payload.c[1]
                   h == pushPrice(priceHistory, price)
               IN  /\ priceHistory' = h
                   /\ tasks' = tasks @@ ((nCycles + 1) :>
                          BeginCycle(NewTask("message"), calculateEta(h),
                                     calculateLambdaFromMomentum(h)))
            /\ nCycles' = nCycles + 1
            /\ last' = Event("message", nCycles + 1)
       ELSE /\ last' = Event("skip", 0)
            /\ UNCHANGED <<priceHistory, tasks, nCycles>>
    /\ UNCHANGED <<mode, source, apiKey, isRunning, stats, conns, timers, alerts,
                   stopCalled>>

\* ws.on('error'): logged, nothing else
WsErrorReconnects(c) ==
    /\ c \in 1..Len(conns)
    /\ conns[c] \in {"connecting", "open"}
    /\ timers' = ScheduleReconnect(timers, isRunning)
    /\ last' = Event("error", c)
    /\ UNCHANGED <<mode, source, apiKey, isRunning, priceHistory, stats, conns, tasks,
                   nCycles, alerts, stopCalled>>
WsError(c) ==
    /\ c \in 1..Len(conns)
    /\ conns[c] \in {"connecting", "open"}
    /\ last' = Event("error", c)
    /\ UNCHANGED <<mode, source, apiKey, isRunning, priceHistory, stats, conns, timers,
                   tasks, nCycles, alerts, stopCalled>>

\* ws.on('close')
WsClose(c) ==
    /\ c \in 1..Len(conns)
    /\ conns[c] \in {"connecting", "open"}
    /\ conns' = [conns EXCEPT ![c] = "closed"]
    /\ timers' = ScheduleReconnect(timers, isRunning)
    /\ last' = Event("close", c)
    /\ UNCHANGED <<mode, source, apiKey, isRunning, priceHistory, stats, tasks,
                   nCycles, alerts, stopCalled>>

\* stop()
Stop ==
    /\ mode # "exited"
    /\ isRunning' = FALSE
    /\ stopCalled' = TRUE
    /\ last' = Event("stop", 0)
    /\ UNCHANGED <<mode, source, apiKey, priceHistory, stats, conns, timers, tasks,
                   nCycles, alerts>>

\* main's SIGINT / SIGTERM handler: monitor.stop(); process.exit(0).  stop()
\* prints this.stats as they are in this turn; the exit ends the process, so
\* no pending timer, socket event or suspended handler runs afterwards
Shutdown ==
    /\ mode # "exited"
    /\ mode' = "exited"
    /\ isRunning' = FALSE
    /\ stopCalled' = TRUE
    /\ conns' = [c \in 1..Len(conns) |-> "closed"]
    /\ timers' = <<>>
    /\ tasks' = <<>>
    /\ last' = Event("shutdown", 0)
    /\ UNCHANGED <<source, apiKey, priceHistory, stats, nCycles, alerts>>

(* ------------------------------ pull mode ----------------------------- *)
\* x || d
OrDefaultNever(x, d) == x
OrDefault(x, d) == IF IsNaN(x) \/ x = 0 THEN d ELSE x

\* what fetchPolymarketMarket returns; NaN stands for an absent field
RealMarket(bid, ask, recentPrice) ==
    [bidVolume |-> bid, askVolume |-> ask,
     recentPrice |-> recentPrice, tokenPrice |-> NaN]
\* generateSimulatedMarket: yesPrice is basePrice kept within [0.1, 0.9] and
\* tokens[0].price = yesPrice.toFixed(3); the object has no bidVolume,
\* askVolume or recentPrice field, and no field that tells its origin
generateSimulatedMarket(basePrice) ==
    LET yesPrice == Max(100, Min(900, basePrice))
    IN  [bidVolume |-> NaN, askVolume |-> NaN,
         recentPrice |-> NaN, tokenPrice |-> Text(yesPrice)]

\* the reading a poll of monitor m takes from a market: price and volumes
\* (monitorViaAPI reads no volumes)
Reading(m, market) ==
    IF m = "market"
    THEN [price |-> OrDefault(market.recentPrice, 500),
          bidVolume |-> OrDefault(market.bidVolume, 0),
          askVolume |-> OrDefault(market.askVolume, 0)]
    ELSE [price |-> OrDefault(market.tokenPrice, 500), bidVolume |-> 0, askVolume |-> 0]

\* poll() from its start to its first await, or to its end
StartPoll(m, src, key, running, tms) ==
    /\ nCycles < MaxPolls
    /\ nCycles' = nCycles + 1
    /\ IF m = "rest" /\ src = "polygon" /\ ~key
       THEN \* console.error("POLYGON_API_KEY not set"); return;
            /\ tasks' = tasks
            /\ timers' = tms
            /\ last' = Event("noKey", nCycles + 1)
       ELSE IF m = "rest" /\ src \notin {"binance", "polygon"}
       THEN \* no branch sets price: if (price) is skipped
            /\ tasks' = tasks
            /\ timers' = ScheduleNext(tms, running, UpdateInterval(m))
            /\ last' = Event("noPrice", nCycles + 1)
       ELSE /\ tasks' = tasks @@ ((nCycles + 1) :>
                   [NewTask("poll") EXCEPT !.pc = IF m = "rest" THEN "fetch" ELSE "obFetch"])
            /\ timers' = tms
            /\ last' = Event("poll", nCycles + 1)
    /\ UNCHANGED <<priceHistory, stats, conns, alerts, stopCalled>>

\* monitorRestAPI(symbol, source), called by main
MonitorRestAPI(src, key) ==
    /\ mode = "none"
    /\ src \in RestSources
    /\ key \in BOOLEAN
    /\ mode' = "rest"
    /\ source' = src
    /\ apiKey' = key
    /\ isRunning' = TRUE
    /\ StartPoll("rest", src, key, TRUE, timers)

\* monitorMarket(marketSlug) and monitorViaAPI(marketSlug)
MonitorPolymarket(m) ==
    /\ mode = "none"
    /\ m \in {"market", "api"}
    /\ mode' = m
    /\ isRunning' = TRUE
    /\ StartPoll(m, source, apiKey, TRUE, timers)
    /\ UNCHANGED <<source, apiKey>>

\* setTimeout(poll, this.updateInterval) fires; a setTimeout timer fires once
PollTimerRepeats(i) ==
    /\ i \in 1..Len(timers)
    /\ timers[i].fn = "poll"
    /\ StartPoll(mode, source, apiKey, isRunning, timers)
    /\ UNCHANGED <<mode, source, apiKey, isRunning>>
PollTimer(i) ==
    /\ i \in 1..Len(timers)
    /\ timers[i].fn = "poll"
    /\ StartPoll(mode, source, apiKey, isRunning, RemoveAt(timers, i))
    /\ UNCHANGED <<mode, source, apiKey, isRunning>>

\* a poll iteration ends without a cycle: the catch block, or if (price) false
EndPoll(id, op) ==
    /\ tasks' = Without(tasks, id)
    /\ timers' = ScheduleNext(timers, isRunning, UpdateInterval(mode))
    /\ last' = Event(op, id)
    /\ UNCHANGED <<mode, source, apiKey, isRunning, priceHistory, stats, conns,
                   nCycles, alerts, stopCalled>>

\* a poll iteration goes on to its next await
Continue(id, t, op) ==
    /\ tasks' = [tasks EXCEPT ![id] = t]
    /\ last' = Event(op, id)
    /\ UNCHANGED <<mode, source, apiKey, isRunning, stats, conns, timers, nCycles,
                   alerts, stopCalled>>

\* if (price): undefined, NaN and 0 are skipped
FalsyNaNOnly(price) == IsNaN(price)
Falsy(price) == IsNaN(price) \/ price = 0

\* monitorRestAPI: await fetch(...) settles
RestFetch(id, ok) ==
    /\ id \in DOMAIN tasks
    /\ tasks[id].pc = "fetch"
    /\ ok \in BOOLEAN
    /\ IF ok
       THEN Continue(id, [tasks[id] EXCEPT !.pc = "json"], "fetched") /\ UNCHANGED priceHistory
       ELSE EndPoll(id, "apiError")

\* monitorRestAPI: await response.json() settles; price = parseFloat(data.lastPrice)
\* or data.results[0].c; ok = FALSE when json() rejects or the field access throws
RestJson(id, ok, price) ==
    /\ id \in DOMAIN tasks
    /\ tasks[id].pc = "json"
    /\ ok \in BOOLEAN
    /\ price \in RestPrices
    /\ IF ~ok THEN EndPoll(id, "apiError")
       ELSE IF Falsy(price) THEN EndPoll(id, "noPrice")
       ELSE LET h == pushPrice(priceHistory, price)
            IN  /\ priceHistory' = h
                /\ Continue(id, BeginCycle(tasks[id], calculateEta(h),
                                           calculateLambdaFromMomentum(h)), "cycle")

\* monitorMarket / monitorViaAPI once fetchPolymarketMarket has returned
\* market; op names the path that made the market, for the step record only
ProcessMarket(id, market, op) ==
    IF mode = "market"
    THEN LET bidVolume == OrDefault(market.bidVolume, 0)
             askVolume == OrDefault(market.askVolume, 0)
             currentPrice == OrDefault(market.recentPrice, 500)
             h == pushPrice(priceHistory, currentPrice)
         IN  /\ priceHistory' = h
             /\ Continue(id, BeginCycle([tasks[id] EXCEPT !.bid = bidVolume,
                                                          !.ask = askVolume],
                                        calculateEtaPolymarket(h),
                                        calculateLambdaPolymarket(bidVolume, askVolume,
                                            currentPrice, Unit - currentPrice)),
                         op)
    ELSE LET yesPrice == OrDefault(market.tokenPrice, 500)
             h == pushPrice(priceHistory, yesPrice)
         IN  /\ priceHistory' = h
             /\ Continue(id, BeginCycle(tasks[id], calculateEtaPolymarket(h),
                                        calculateLambdaFromMomentumPolymarket(h)),
                         op)

\* fetchPolymarketMarket: one of its two await fetch(...) settles
PolyFetch(id, ok, sim) ==
    /\ id \in DOMAIN tasks
    /\ tasks[id].pc \in {"obFetch", "evFetch"}
    /\ ok \in BOOLEAN
    /\ sim \in SimulatedPrices
    /\ IF ok
       THEN /\ Continue(id, [tasks[id] EXCEPT
                   !.pc = IF @ = "obFetch" THEN "obJson" ELSE "evJson"], "fetched")
            /\ UNCHANGED priceHistory
       ELSE ProcessMarket(id, generateSimulatedMarket(sim), "simulatedCycle")

\* fetchPolymarketMarket: await obResponse.json() settles; hasOb = the
\* response lists an orderbook, with volumes bid and ask
PolyOrderbookJson(id, ok, hasOb, bid, ask, sim) ==
    /\ id \in DOMAIN tasks
    /\ tasks[id].pc = "obJson"
    /\ ok \in BOOLEAN /\ hasOb \in BOOLEAN
    /\ bid \in Volumes /\ ask \in Volumes
    /\ sim \in SimulatedPrices
    /\ IF ok
       THEN /\ Continue(id, [tasks[id] EXCEPT !.pc = "evFetch", !.hasOb = hasOb,
                                              !.bid = IF hasOb THEN bid ELSE 0,
                                              !.ask = IF hasOb THEN ask ELSE 0], "fetched")
            /\ UNCHANGED priceHistory
       ELSE ProcessMarket(id, generateSimulatedMarket(sim), "simulatedCycle")

\* fetchPolymarketMarket: await eventsResponse.json() settles; recentPrice is
\* makerAmount / (makerAmount + takerAmount) of the newest fill, or 0.5
PolyEventsJson(id, ok, recentPrice, sim) ==
    /\ id \in DOMAIN tasks
    /\ tasks[id].pc = "evJson"
    /\ ok \in BOOLEAN
    /\ recentPrice \in RecentPrices
    /\ sim \in SimulatedPrices
    /\ IF ok /\ tasks[id].hasOb
       THEN ProcessMarket(id, RealMarket(tasks[id].bid, tasks[id].ask, recentPrice),
                          "cycle")
       ELSE ProcessMarket(id, generateSimulatedMarket(sim), "simulatedCycle")

(* ---------------------------- specification --------------------------- *)
Next ==
    \/ /\ MonitorBinance
       /\ Idle
    \/ /\ \E i \in 1..Len(timers) : ReconnectTimer(i)
       /\ Idle
    \/ /\ \E c \in 1..Len(conns) : WsOpen(c)
       /\ Idle
    \/ /\ \E c \in 1..Len(conns), payload \in TickerPayloads : WsMessage(c, payload)
       /\ Idle
    \/ /\ \E c \in 1..Len(conns) : WsError(c)
       /\ Idle
    \/ /\ \E c \in 1..Len(conns) : WsClose(c)
       /\ Idle
    \/ /\ \E src \in RestSources, key \in BOOLEAN : MonitorRestAPI(src, key)
       /\ Idle
    \/ /\ \E m \in {"market", "api"} : MonitorPolymarket(m)
       /\ Idle
    \/ /\ \E i \in 1..Len(timers) : PollTimer(i)
       /\ Idle
    \/ /\ \E id \in DOMAIN tasks, ok \in BOOLEAN : RestFetch(id, ok)
       /\ Idle
    \/ /\ \E id \in DOMAIN tasks, ok \in BOOLEAN, price \in RestPrices : RestJson(id, ok, price)
       /\ Idle
    \/ /\ \E id \in DOMAIN tasks, ok \in BOOLEAN, sim \in SimulatedPrices : PolyFetch(id, ok, sim)
       /\ Idle
    \/ /\ \E id \in DOMAIN tasks, ok \in BOOLEAN, hasOb \in BOOLEAN, bid \in Volumes,
          ask \in Volumes, sim \in SimulatedPrices :
              PolyOrderbookJson(id, ok, hasOb, bid, ask, sim)
       /\ Idle
    \/ /\ \E id \in DOMAIN tasks, ok \in BOOLEAN, recentPrice \in RecentPrices,
          sim \in SimulatedPrices : PolyEventsJson(id, ok, recentPrice, sim)
       /\ Idle
    \/ /\ \E id \in DOMAIN tasks : OracleReturn(id)
       /\ Idle
    \/ /\ \E id \in DOMAIN tasks : OracleFail(id)
       /\ Idle
    \/ /\ Stop
       /\ Idle
    \/ /\ Shutdown
       /\ Idle

Spec == Init /\ [][Next]_vars

(* ------------------------------ pull runs ----------------------------- *)
\* a run of monitorRestAPI, monitorMarket or monitorViaAPI: the poll loop
PollBegins ==
    /\ \/ \E src \in RestSources, key \in BOOLEAN : MonitorRestAPI(src, key)
       \/ \E m \in {"market", "api"} : MonitorPolymarket(m)
    /\ Idle

PollTimerFires ==
    /\ \E i \in 1..Len(timers) : PollTimer(i)
    /\ Idle

\* an await of the iteration in progress settles
PollProceeds ==
    /\ \E id \in DOMAIN tasks :
          \/ \E ok \in BOOLEAN : RestFetch(id, ok)
          \/ \E ok \in BOOLEAN, price \in RestPrices : RestJson(id, ok, price)
          \/ \E ok \in BOOLEAN, sim \in SimulatedPrices : PolyFetch(id, ok, sim)
          \/ \E ok \in BOOLEAN, hasOb \in BOOLEAN, bid \in Volumes, ask \in Volumes,
                sim \in SimulatedPrices : PolyOrderbookJson(id, ok, hasOb, bid, ask, sim)
          \/ \E ok \in BOOLEAN, recentPrice \in RecentPrices, sim \in SimulatedPrices :
                PolyEventsJson(id, ok, recentPrice, sim)
          \/ OracleReturn(id)
          \/ OracleFail(id)
    /\ Idle

NextPull ==
    \/ PollBegins
    \/ PollTimerFires
    \/ PollProceeds
    \/ /\ Stop
       /\ Idle
    \/ /\ Shutdown
       /\ Idle

SpecPull == Init /\ [][NextPull]_vars

(* ---------------------------- history runs ---------------------------- *)
\* prices appended in the history runs
PushPrices == {NaN, 100, 110}

\* a monitor constructed with a capacity of 1..MaxCapacity
InitHistory ==
    /\ \E capacity \in 1..MaxCapacity : Constructed(capacity)
    /\ pushed = <<>>
    /\ applied = <<>>
    /\ est = <<>>
    /\ shown = <<>>
    /\ tester = NewTester
    /\ monitor = NewMonitor

\* the append of a cycle: this.priceHistory.push(price) and the eviction
PushPrice(price) ==
    /\ Len(pushed) < MaxPushes
    /\ priceHistory' = pushPrice(priceHistory, price)
    /\ pushed' = Append(pushed, price)
    /\ last' = Event("push", Len(pushed) + 1)
    /\ UNCHANGED <<mode, source, apiKey, isRunning, stats, conns, timers, tasks,
                   nCycles, alerts, stopCalled, maxHistorySize, applied, est, shown,
                   tester, monitor>>

NextHistory == \E price \in PushPrices : PushPrice(price)

SpecHistory == InitHistory /\ [][NextHistory]_vars

(* --------------------------- statistics runs -------------------------- *)
\* the results computeOracleDelta can return: a contract delta, its
\* efficiency, either isOptimal
StatsResults ==
    {Result([NewTask("message") EXCEPT !.eta = NeutralDefault, !.lambda = NeutralDefault,
                                       !.delta = d, !.eff = ContractEfficiency(d),
                                       !.opt = o]) :
        d \in Deltas \cup {0, HealthyAbove, HealthyAbove + 1}, o \in BOOLEAN}

\* what a handler does with a result: this.updateStats(result),
\* this.displayReading(..., result) and the alert on result.isOptimal
ApplyResultDisplayOnly(result) ==
    /\ Len(applied) < MaxResults
    /\ stats' = stats
    /\ shown' = Append(shown, displayStatus(result))
    /\ alerts' = IF ShouldAlert(result) THEN alerts + 1 ELSE alerts
    /\ applied' = Append(applied, result)
    /\ last' = Event("updateStats", Len(applied) + 1)
    /\ UNCHANGED <<mode, source, apiKey, isRunning, priceHistory, conns, timers, tasks,
                   nCycles, stopCalled, maxHistorySize, pushed, est, tester,
                   monitor>>
ApplyResult(result) ==
    /\ Len(applied) < MaxResults
    /\ stats' = updateStats(stats, result)
    /\ shown' = Append(shown, displayStatus(result))
    /\ alerts' = IF ShouldAlert(result) THEN alerts + 1 ELSE alerts
    /\ applied' = Append(applied, result)
    /\ last' = Event("updateStats", Len(applied) + 1)
    /\ UNCHANGED <<mode, source, apiKey, isRunning, priceHistory, conns, timers, tasks,
                   nCycles, stopCalled, maxHistorySize, pushed, est, tester,
                   monitor>>

NextStats == \E result \in StatsResults : ApplyResult(result)

SpecStats == Init /\ [][NextStats]_vars

(* ----------------------------- warm runs ------------------------------ *)
\* a run observed from a point where its history is one or two prices short
\* of the length at which calculateEta leaves its default: the earlier cycles
\* have failed (stats untouched) and none is in flight; cycles are counted from
\* this point.  Push mode with the socket open, or monitorMarket with its
\* next poll armed.
InitWarm ==
    \E m \in {"ws", "market"}, n \in {EtaMinHistory - 2, EtaMinHistory - 1} :
        /\ maxHistorySize = EtaMinHistory
        /\ mode = m
        /\ source = "none"
        /\ apiKey = FALSE
        /\ isRunning = TRUE
        /\ priceHistory = [i \in 1..n |-> IF m = "ws" THEN 100 ELSE 500]
        /\ stats = [readings |-> 0, optimalCount |-> 0,
                    avgDelta |-> RatOfInt(0), avgEfficiency |-> RatOfInt(0)]
        /\ conns = IF m = "ws" THEN <<"open">> ELSE <<>>
        /\ timers = IF m = "ws" THEN <<>>
                    ELSE <<[fn |-> "poll", delay |-> UpdateInterval(m)]>>
        /\ tasks = <<>>
        /\ nCycles = 0
        /\ alerts = 0
        /\ stopCalled = FALSE
        /\ last = Event("init", 0)
        /\ pushed = <<>>
        /\ applied = <<>>
        /\ est = <<>>
        /\ shown = <<>>
        /\ tester = NewTester
        /\ monitor = NewMonitor

NextCycle ==
    \/ /\ \E c \in 1..Len(conns), payload \in TickerPayloads : WsMessage(c, payload)
       /\ Idle
    \/ /\ \E i \in 1..Len(timers) : PollTimer(i)
       /\ Idle
    \/ /\ \E id \in DOMAIN tasks, ok \in BOOLEAN, sim \in SimulatedPrices : PolyFetch(id, ok, sim)
       /\ Idle
    \/ /\ \E id \in DOMAIN tasks, ok \in BOOLEAN, hasOb \in BOOLEAN, bid \in Volumes,
             ask \in Volumes, sim \in SimulatedPrices :
                 PolyOrderbookJson(id, ok, hasOb, bid, ask, sim)
       /\ Idle
    \/ /\ \E id \in DOMAIN tasks, ok \in BOOLEAN, recentPrice \in RecentPrices,
             sim \in SimulatedPrices : PolyEventsJson(id, ok, recentPrice, sim)
       /\ Idle
    \/ /\ \E id \in DOMAIN tasks : OracleReturn(id)
       /\ Idle
    \/ /\ \E id \in DOMAIN tasks : OracleFail(id)
       /\ Idle

SpecCycle == InitWarm /\ [][NextCycle]_vars

(* --------------------------- estimator runs --------------------------- *)
\* prices of the histories given to the estimators: NaN (unparseable), 0, and
\* prices around 1000 from 0.1% to 100% apart
BasePrice == 1000
OtherPrices == {NaN, 0, 1001, 1002, 1005, 1010, 2000}
\* a history of n prices, all BasePrice except price b at position k
Spike(n, b, k) == [i \in 1..n |-> IF i = k THEN b ELSE BasePrice]
\* a history of n prices, BasePrice and b in turn
Alternating(n, b) == [i \in 1..n |-> IF i % 2 = 0 THEN b ELSE BasePrice]
HistoriesOfLen(n) ==
    {Spike(n, BasePrice, 0)}
        \cup {Spike(n, b, k) : b \in OtherPrices, k \in 1..n}
        \cup {Alternating(n, b) : b \in OtherPrices}
\* histories of text prices, as monitorViaAPI keeps them when every market
\* was a simulated one: price b at position k among prices of 0.500
TextPrices == {500, 510}
TextHistoriesOfLen(n) ==
    {[i \in 1..n |-> Text(IF i = k THEN b ELSE 500)] : b \in TextPrices, k \in 1..n}
EstimatorHistories ==
    UNION {HistoriesOfLen(n) \cup TextHistoriesOfLen(n) : n \in 0..MaxHistoryLen}
\* volumes given to the lambda estimators (parseFloat(x || 0) of a numeric field)
EstimatorVolumes == {0, 600, 1800}
\* orders given to calculateLambdaFromOrderbook
EstimatorOrders ==
    {<<>>}
        \cup {<<[side |-> "buy", size |-> b], [side |-> "sell", size |-> a]>> :
                 b \in EstimatorVolumes, a \in EstimatorVolumes}

\* a monitor whose history is one of EstimatorHistories
InitEstimators ==
    /\ maxHistorySize = MaxHistoryLen
    /\ mode = "none"
    /\ source = "none"
    /\ apiKey = FALSE
    /\ isRunning = FALSE
    /\ priceHistory \in EstimatorHistories
    /\ stats = [readings |-> 0, optimalCount |-> 0,
                avgDelta |-> RatOfInt(0), avgEfficiency |-> RatOfInt(0)]
    /\ conns = <<>>
    /\ timers = <<>>
    /\ tasks = <<>>
    /\ nCycles = 0
    /\ alerts = 0
    /\ stopCalled = FALSE
    /\ last = Event("init", 0)
    /\ pushed = <<>>
    /\ applied = <<>>
    /\ est = <<>>
    /\ shown = <<>>
    /\ tester = NewTester
    /\ monitor = NewMonitor

EstimatorsUnchanged ==
    UNCHANGED <<mode, source, apiKey, isRunning, priceHistory, stats, conns, timers,
                tasks, nCycles, alerts, stopCalled, maxHistorySize, pushed, applied,
                shown, tester, monitor>>

\* the estimators that take the history, applied to this.priceHistory
EstimateHistory ==
    /\ est = <<>>
    /\ est' = [of |-> "history",
               eta |-> calculateEta(priceHistory),
               etaPolymarket |-> calculateEtaPolymarket(priceHistory),
               lambdaFromMomentum |-> calculateLambdaFromMomentum(priceHistory),
               lambdaFromMomentumPolymarket |->
                   calculateLambdaFromMomentumPolymarket(priceHistory)]
    /\ last' = Event("estimate", 0)
    /\ EstimatorsUnchanged

\* the estimators that take volumes
EstimateVolumes(bidVolume, askVolume, yesPrice, orders) ==
    /\ est = <<>>
    /\ Len(priceHistory) = 0
    /\ est' = [of |-> "volumes",
               bidVolume |-> bidVolume, askVolume |-> askVolume,
               yesPrice |-> yesPrice, noPrice |-> Unit - yesPrice,
               lambda |-> calculateLambda(bidVolume, askVolume),
               lambdaPolymarket |->
                   calculateLambdaPolymarket(bidVolume, askVolume,
                                             yesPrice, Unit - yesPrice),
               lambdaFromOrderbook |-> calculateLambdaFromOrderbook(orders)]
    /\ last' = Event("estimate", 0)
    /\ EstimatorsUnchanged

NextEstimators ==
    \/ EstimateHistory
    \/ \E bidVolume \in EstimatorVolumes, askVolume \in EstimatorVolumes,
          yesPrice \in RecentPrices, orders \in EstimatorOrders :
              EstimateVolumes(bidVolume, askVolume, yesPrice, orders)

SpecEstimators == InitEstimators /\ [][NextEstimators]_vars

(* ------------------------------ test runs ----------------------------- *)
\* OracleTester's scenarios; <<>> stands for null
TEST_SCENARIOS ==
    <<[name |-> "Critical Damping (Optimal)", eta |-> 707106781, lambda |-> 707106781,
       expectedDelta |-> <<230>>, expectedOptimal |-> <<TRUE>>],
      [name |-> "Origin (Zero State)", eta |-> 0, lambda |-> 0,
       expectedDelta |-> <<>>, expectedOptimal |-> <<FALSE>>],
      [name |-> "High Damping", eta |-> 900000000, lambda |-> 400000000,
       expectedDelta |-> <<>>, expectedOptimal |-> <<FALSE>>],
      [name |-> "Low Damping", eta |-> 400000000, lambda |-> 900000000,
       expectedDelta |-> <<>>, expectedOptimal |-> <<FALSE>>],
      [name |-> "Balanced (Near Optimal)", eta |-> 700000000, lambda |-> 700000000,
       expectedDelta |-> <<>>, expectedOptimal |-> <<>>]>>

\* what the contract may answer to a scenario: a delta at the edge of the
\* tolerance around 230 or outside it, an efficiency of 100% or just above
TesterDeltas == {225, 236}
TesterEfficiencies == {1000 * ToContractScale, 1000 * ToContractScale + 1}

\* (efficiencyValue / 1e9) * 100
EfficiencyPercent(efficiencyValue) == Rat(efficiencyValue, 10 * ToContractScale)

\* OracleTester.validateResults; issues holds one name per message pushed
validateResultsStrict(scenario, delta, isOptimal, efficiencyValue) ==
    LET tolerance == 5
        deltaIssue ==
            IF scenario.expectedDelta # <<>>
                  /\ Abs(delta - scenario.expectedDelta[1]) >= tolerance
            THEN {"delta"} ELSE {}
        optimalIssue ==
            IF scenario.expectedOptimal # <<>> /\ isOptimal # scenario.expectedOptimal[1]
            THEN {"optimal"} ELSE {}
        efficiencyPercent == EfficiencyPercent(efficiencyValue)
        efficiencyIssue ==
            IF efficiencyPercent[1] < 0 \/ efficiencyPercent[1] > 100 * efficiencyPercent[2]
            THEN {"efficiency"} ELSE {}
        issues == deltaIssue \cup optimalIssue \cup efficiencyIssue
    IN  [success |-> issues = {}, issues |-> issues]
validateResults(scenario, delta, isOptimal, efficiencyValue) ==
    LET tolerance == 5
        deltaIssue ==
            IF scenario.expectedDelta # <<>>
                  /\ Abs(delta - scenario.expectedDelta[1]) > tolerance
            THEN {"delta"} ELSE {}
        optimalIssue ==
            IF scenario.expectedOptimal # <<>> /\ isOptimal # scenario.expectedOptimal[1]
            THEN {"optimal"} ELSE {}
        efficiencyPercent == EfficiencyPercent(efficiencyValue)
        efficiencyIssue ==
            IF efficiencyPercent[1] < 0 \/ efficiencyPercent[1] > 100 * efficiencyPercent[2]
            THEN {"efficiency"} ELSE {}
        issues == deltaIssue \cup optimalIssue \cup efficiencyIssue
    IN  [success |-> issues = {}, issues |-> issues]

\* the result testScenario pushes after its three calls
ScenarioResult(scenario, delta, efficiencyValue, isOptimal) ==
    [scenario |-> scenario.name, failed |-> FALSE,
     success |-> validateResults(scenario, delta, isOptimal, efficiencyValue).success,
     delta |-> delta, efficiency |-> efficiencyValue, isOptimal |-> isOptimal,
     validation |-> validateResults(scenario, delta, isOptimal, efficiencyValue)]
\* the result testScenario's catch block pushes: { scenario, success: false, error }
FailedResult(scenario) == [scenario |-> scenario.name, failed |-> TRUE, success |-> FALSE]

\* testScenario's catch block: the result is pushed and returned to the loop
CatchScenarioRethrow(t, scenario) == [t EXCEPT !.pc = "exited"]
CatchScenario(t, scenario) ==
    [t EXCEPT !.results = Append(@, FailedResult(scenario)), !.pc = "delay"]

TesterUnchanged ==
    UNCHANGED <<mode, source, apiKey, isRunning, priceHistory, stats, conns, timers,
                tasks, nCycles, alerts, stopCalled, maxHistorySize, pushed, applied,
                est, shown, monitor>>

\* runAllTests: await this.connect(); process.exit(1) when it fails
TesterConnect(ok) ==
    /\ tester.pc = "new"
    /\ tester' = [tester EXCEPT !.pc = IF ok THEN "loop" ELSE "exited"]
    /\ last' = Event("connect", 0)
    /\ TesterUnchanged

\* for (const scenario of TEST_SCENARIOS): testScenario up to its first await
TestScenarioStart ==
    /\ tester.pc = "loop"
    /\ tester.index < Len(TEST_SCENARIOS)
    /\ tester' = [tester EXCEPT !.index = @ + 1, !.pc = "computeDelta"]
    /\ last' = Event("scenario", tester.index + 1)
    /\ TesterUnchanged

\* what the awaited call of testScenario may return
TesterReturnValues(pc) ==
    CASE pc = "computeDelta" -> TesterDeltas
      [] pc = "efficiency" -> TesterEfficiencies
      [] OTHER -> BOOLEAN

\* testScenario: the awaited contract call returns a value
TesterReturn ==
    /\ tester.pc \in OracleCalls
    /\ \E v \in TesterReturnValues(tester.pc) :
         LET scenario == TEST_SCENARIOS[tester.index]
         IN  CASE tester.pc = "computeDelta" ->
                     /\ tester' = [tester EXCEPT !.delta = v, !.pc = "efficiency"]
                     /\ last' = Event("oracle", tester.index)
               [] tester.pc = "efficiency" ->
                     /\ tester' = [tester EXCEPT !.efficiency = v, !.pc = "isOptimal"]
                     /\ last' = Event("oracle", tester.index)
               [] OTHER ->
                     /\ tester' = [tester EXCEPT
                            !.results = Append(@, ScenarioResult(scenario, tester.delta,
                                                                 tester.efficiency, v)),
                            !.pc = "delay"]
                     /\ last' = Event("result", tester.index)
    /\ TesterUnchanged

\* testScenario: the awaited contract call throws
TesterFail ==
    /\ tester.pc \in OracleCalls
    /\ tester' = CatchScenario(tester, TEST_SCENARIOS[tester.index])
    /\ last' = Event("failed", tester.index)
    /\ TesterUnchanged

\* await new Promise(resolve => setTimeout(resolve, 500)) is over
TesterDelay ==
    /\ tester.pc = "delay"
    /\ tester' = [tester EXCEPT !.pc = "loop", !.delta = 0, !.efficiency = 0]
    /\ last' = Event("delay", tester.index)
    /\ TesterUnchanged

\* after the loop: testInputValidation and testEdgeCases (console output
\* only, every call in its own try) and printSummary
TesterSummary ==
    /\ tester.pc = "loop"
    /\ tester.index = Len(TEST_SCENARIOS)
    /\ tester' = [tester EXCEPT !.pc = "done"]
    /\ last' = Event("summary", 0)
    /\ TesterUnchanged

NextTester ==
    \/ \E ok \in BOOLEAN : TesterConnect(ok)
    \/ TestScenarioStart
    \/ TesterReturn
    \/ TesterFail
    \/ TesterDelay
    \/ TesterSummary

SpecTester == Init /\ [][NextTester]_vars

(* -------------------------- health-check runs ------------------------- *)
\* runSingleTest begins: new OracleTester(), tester.connect() up to its await
BeginCheck(m, kind) ==
    [m EXCEPT !.checks = Append(@, [kind |-> kind, pc |-> "connect"]),
              !.started = @ + 1]

\* what follows a runSingleTest that returned success; after the initial one,
\* start() goes on: this.runCount++ and this.intervalId = setInterval(...);
\* the interval callback only logs
AfterCheckStopOnFailure(m, kind, success) ==
    IF ~success
    THEN [m EXCEPT !.isRunning = FALSE, !.intervals = {},
                   !.failures = @ + 1]
    ELSE IF kind = "initial"
         THEN [m EXCEPT !.runCount = @ + 1, !.created = @ + 1,
                        !.intervalId = m.created + 1,
                        !.intervals = @ \cup {m.created + 1}]
         ELSE m
AfterCheck(m, kind, success) ==
    LET n == [m EXCEPT !.failures = IF success THEN @ ELSE @ + 1]
    IN  IF kind = "initial"
        THEN [n EXCEPT !.runCount = @ + 1, !.created = @ + 1,
                       !.intervalId = m.created + 1,
                       !.intervals = @ \cup {m.created + 1}]
        ELSE n

MonitorUnchanged ==
    UNCHANGED <<mode, source, apiKey, isRunning, priceHistory, stats, conns, timers,
                tasks, nCycles, alerts, stopCalled, maxHistorySize, pushed, applied,
                est, shown, tester>>

\* the calls of start() that went past its first line: one per interval timer
\* created and one per initial health check still awaited
StartsSoFar(m) ==
    m.created + Cardinality({i \in 1..Len(m.checks) : m.checks[i].kind = "initial"})

\* start(): returns at once when isRunning, else sets the flag and awaits the
\* first runSingleTest
MonitorStart ==
    /\ monitor.pc = "idle"
    /\ IF monitor.isRunning
       THEN /\ monitor' = monitor
            /\ last' = Event("startIgnored", 0)
       ELSE /\ monitor.started < MaxChecks
            /\ StartsSoFar(monitor) < MaxStarts
            /\ monitor' = BeginCheck([monitor EXCEPT !.isRunning = TRUE, !.halted = FALSE],
                                     "initial")
            /\ last' = Event("start", 0)
    /\ MonitorUnchanged

\* runSingleTest: await tester.connect() settles; false is returned when the
\* connection failed
CheckConnected(i, connected) ==
    /\ monitor.pc = "idle"
    /\ i \in 1..Len(monitor.checks)
    /\ monitor.checks[i].pc = "connect"
    /\ IF connected
       THEN /\ monitor' = [monitor EXCEPT !.checks[i].pc = "scenario"]
            /\ last' = Event("connected", i)
       ELSE /\ monitor' = AfterCheck([monitor EXCEPT !.checks = RemoveAt(@, i)],
                                     monitor.checks[i].kind, FALSE)
            /\ last' = Event("checkFailed", i)
    /\ MonitorUnchanged

\* runSingleTest: await tester.testScenario(criticalDamping) settles (it
\* catches every error of its calls) and result.success is returned
CheckDone(i, success) ==
    /\ monitor.pc = "idle"
    /\ i \in 1..Len(monitor.checks)
    /\ monitor.checks[i].pc = "scenario"
    /\ monitor' = AfterCheck([monitor EXCEPT !.checks = RemoveAt(@, i)],
                             monitor.checks[i].kind, success)
    /\ last' = Event(IF success THEN "checkPassed" ELSE "checkFailed", i)
    /\ MonitorUnchanged

\* a setInterval timer fires: this.runCount++ and runSingleTest begins
IntervalTick(id) ==
    /\ monitor.pc = "idle"
    /\ id \in monitor.intervals
    /\ monitor.started < MaxChecks
    /\ monitor' = BeginCheck([monitor EXCEPT !.runCount = @ + 1], "interval")
    /\ last' = Event("tick", id)
    /\ MonitorUnchanged

\* stop(): clearInterval(this.intervalId) and isRunning = false, or nothing
\* when the monitor is not running
MonitorStop ==
    /\ monitor.pc = "idle"
    /\ monitor' = IF monitor.isRunning
                  THEN [monitor EXCEPT !.intervals = @ \ {monitor.intervalId},
                                       !.isRunning = FALSE, !.halted = TRUE]
                  ELSE [monitor EXCEPT !.halted = TRUE]
    /\ last' = Event("stop", 0)
    /\ MonitorUnchanged

\* SIGINT / SIGTERM: monitor.stop(); process.exit(0)
MonitorSignal ==
    /\ monitor.pc = "idle"
    /\ monitor' = [monitor EXCEPT !.pc = "exited", !.isRunning = FALSE, !.halted = TRUE,
                                  !.intervals = {}, !.checks = <<>>]
    /\ last' = Event("shutdown", 0)
    /\ MonitorUnchanged

NextMonitor ==
    \/ MonitorStart
    \/ \E i \in 1..MaxChecks, connected \in BOOLEAN : CheckConnected(i, connected)
    \/ \E i \in 1..MaxChecks, success \in BOOLEAN : CheckDone(i, success)
    \/ \E id \in 1..MaxStarts : IntervalTick(id)
    \/ MonitorStop
    \/ MonitorSignal

SpecMonitor == Init /\ [][NextMonitor]_vars

\* setInterval fires its callback again and again for as long as the timer is
\* not cleared
SpecMonitorFair == SpecMonitor /\ WF_vars(\E id \in 1..MaxStarts : IntervalTick(id))

(* ------------------------------- claims ------------------------------- *)
PullModes == {"rest", "market", "api"}
PollTimers == {i \in 1..Len(timers) : timers[i].fn = "poll"}
ReconnectTimers == {i \in 1..Len(timers) : timers[i].fn = "monitorBinance"}
LiveConns == {c \in 1..Len(conns) : conns[c] \in {"connecting", "open"}}

\* C1: in every mode, the step in which a contract call of a cycle fails
\* (computeOracleDelta returns null) leaves stats exactly as they were and
\* raises no alert.
C1_FailedCycleLeavesStats ==
    [][last'.op = "failed" => (stats' = stats /\ alerts' = alerts)]_vars
\* a third call fails in a prediction-market run that already has a reading
C1_Witness ==
    /\ mode = "market"
    /\ last.op = "failed" /\ last.pc = "isOptimal"
    /\ stats.readings >= 1

\* C2: alertCriticalEquilibrium is called in a step if and only if the step
\* ends a cycle with a result whose isOptimal is true, whatever came before:
\* every such step raises exactly one alert, no other step raises any.
C2_AlertIffOptimal ==
    [][IF last'.op = "result" /\ last'.opt THEN alerts' = alerts + 1
       ELSE alerts' = alerts]_vars
\* the second of two optimal cycles has raised the second alert
C2_Witness ==
    /\ alerts = 2 /\ stats.readings = 2
    /\ last.op = "result" /\ last.opt

\* C3: the calls a cycle has issued are a prefix of computeDelta, efficiency,
\* isOptimal; a call is issued only when the one before it has returned; and
\* efficiency and isOptimal get the value this cycle's computeDelta returned.
CallsInOrder(t) ==
    LET c == t.calls
    IN  /\ Len(c) \in 1..3
        /\ \A i \in 1..(Len(c) - 1) : c[i].ret # <<>>
        /\ c[1].fn = "computeDelta"
        /\ c[1].args = <<Scaled(t.eta), Scaled(t.lambda)>>
        /\ Len(c) >= 2 => (c[2].fn = "efficiency" /\ c[2].args = c[1].ret)
        /\ Len(c) >= 3 => (c[3].fn = "isOptimal" /\ c[3].args = c[1].ret)
C3_CallsOrdered ==
    \A id \in DOMAIN tasks : tasks[id].pc \in OracleCalls => CallsInOrder(tasks[id])
\* two overlapping cycles with different deltas, one at its third call
C3_Witness ==
    \E i \in DOMAIN tasks, j \in DOMAIN tasks :
        /\ i # j
        /\ tasks[i].pc = "isOptimal" /\ tasks[j].pc \in {"efficiency", "isOptimal"}
        /\ tasks[i].delta # tasks[j].delta

\* C4: a cycle calls each contract function at most once, and the step in
\* which one of its calls fails ends the cycle without issuing any call.
C4_NoRetry ==
    /\ [](\A id \in DOMAIN tasks :
             \A i \in 1..Len(tasks[id].calls), j \in 1..Len(tasks[id].calls) :
                 i # j => tasks[id].calls[i].fn # tasks[id].calls[j].fn)
    /\ [][last'.op = "failed" =>
             /\ last'.id \in DOMAIN tasks
             /\ tasks' = Without(tasks, last'.id)]_vars
\* the efficiency call failed: isOptimal was never issued for that cycle
C4_Witness ==
    /\ last.op = "failed" /\ last.pc = "efficiency"
    /\ last.id \notin DOMAIN tasks

\* C5: in pull mode there is at most one poll iteration in progress or
\* scheduled: a timer is armed only when no iteration is in progress.
C5_OnePollAtATime ==
    mode \in PullModes => Cardinality(DOMAIN tasks) + Cardinality(PollTimers) <= 1
\* the timer for the third iteration is armed, the second one has ended
C5_Witness ==
    /\ mode = "rest" /\ nCycles = 2
    /\ tasks = <<>> /\ Cardinality(PollTimers) = 1
    /\ last.op = "result"

\* C6: in push mode the cycle of one message is over before the next message
\* is handled: at most one message cycle is in flight.
C6_MessageCyclesDoNotOverlap ==
    mode = "ws" => Cardinality(DOMAIN tasks) <= 1

\* C7: the close handler schedules exactly one resubscription, with the fixed
\* delay of 5000 ms, when the run flag is true, and none when it is false; the
\* same holds for every later close.
C7_CloseSchedulesOneReconnect ==
    [][last'.op = "close" =>
          timers' = IF isRunning
                    THEN Append(timers, [fn |-> "monitorBinance", delay |-> 5000])
                    ELSE timers]_vars
\* the second connection has closed as well, and its reconnect is scheduled
C7_Witness ==
    /\ last.op = "close" /\ last.id = 2
    /\ isRunning
    /\ timers = <<[fn |-> "monitorBinance", delay |-> 5000]>>

\* C8: once stop() has set the run flag of a started run to false, no new
\* cycle, poll iteration or connection is started.
C8_NothingStartsAfterStop ==
    [][(mode # "none" /\ stopCalled /\ ~isRunning) =>
          (nCycles' = nCycles /\ Len(conns') = Len(conns))]_vars

\* C9: in pull mode, while the run flag is true, every poll iteration that
\* ends is followed by the scheduling of the next one.
C9_EveryPollReschedules ==
    [][(/\ mode' \in PullModes
        /\ last'.op \in {"noKey", "noPrice", "apiError", "failed", "result"}
        /\ isRunning') => Cardinality({i \in 1..Len(timers') : timers'[i].fn = "poll"}) = 1]_vars

\* C10: as long as stop() has not been called, the push transport is never
\* terminal: a connection is open or connecting, or a reconnection is scheduled.
C10_PushNeverTerminalBeforeStop ==
    (mode = "ws" /\ ~stopCalled) => (LiveConns # {} \/ ReconnectTimers # {})

\* C11: on a shutdown signal the statistics are printed and the process exits
\* only after a cycle in flight has finished: the step that prints and exits
\* is taken with no cycle suspended at an await
C11_ShutdownAfterInFlightCycle == [][last'.op = "shutdown" => tasks = <<>>]_vars

\* C12: in every state between handler steps, in every mode, priceHistory
\* holds at most maxHistorySize prices.
C12_HistoryBounded == Len(priceHistory) <= maxHistorySize
\* a second priced push message has arrived and the history is at capacity
C12_Witness ==
    /\ mode = "ws" /\ last.op = "message" /\ last.id = 2
    /\ Len(priceHistory) = maxHistorySize

LastN(s, k) == SubSeq(s, Len(s) - k + 1, Len(s))

\* C13: after n prices have been appended, priceHistory is the last
\* min(n, maxHistorySize) of them in the order of their appending; after
\* maxHistorySize + 1 appends only the first price is gone.
C13_HistoryIsNewestSuffix ==
    priceHistory = LastN(pushed, Min(Len(pushed), maxHistorySize))
\* capacity 2 or more, one price more than the capacity appended, the first
\* price (different from the second) evicted
C13_Witness ==
    /\ maxHistorySize >= 2
    /\ Len(pushed) = maxHistorySize + 1
    /\ pushed[1] # pushed[2]
    /\ priceHistory = Tail(pushed)

\* C14: readings counts the successfully completed cycles and optimalCount
\* those of them whose result had isOptimal true: both start at 0, a step that
\* completes a cycle with a result adds 1 to readings and, when the result is
\* optimal, 1 to optimalCount, and no other step changes either, in whatever
\* order overlapping cycles complete.
C14_CountsFollowCompletedCycles ==
    [][IF last'.op = "result"
       THEN /\ stats'.readings = stats.readings + 1
            /\ stats'.optimalCount =
                  stats.optimalCount + (IF last'.opt THEN 1 ELSE 0)
       ELSE /\ stats'.readings = stats.readings
            /\ stats'.optimalCount = stats.optimalCount]_vars
\* push mode: cycle 2 completed before cycle 1, one of the two optimal
C14_Witness ==
    /\ mode = "ws" /\ last.op = "result" /\ last.id = 1
    /\ stats.readings = 2 /\ stats.optimalCount = 1

RECURSIVE SumDelta(_)
SumDelta(s) == IF s = <<>> THEN 0 ELSE Head(s).delta + SumDelta(Tail(s))
RECURSIVE SumEfficiencyPercent(_)
SumEfficiencyPercent(s) ==
    IF s = <<>> THEN RatOfInt(0)
    ELSE RatAdd(Head(s).efficiencyPercent, SumEfficiencyPercent(Tail(s)))

\* C15: after updateStats has been applied to n >= 1 results, avgDelta is
\* (d1 + ... + dn) / n and avgEfficiency is the mean of their efficiencyPercent
\* (in exact arithmetic).
C15_IncrementalMeanIsBatchMean ==
    applied # <<>> =>
        /\ stats.avgDelta = Rat(SumDelta(applied), Len(applied))
        /\ stats.avgEfficiency =
              RatDivInt(SumEfficiencyPercent(applied), Len(applied))
\* three results with different deltas and a mean that is no integer
C15_Witness ==
    /\ Len(applied) = 3
    /\ applied[1].delta # applied[2].delta
    /\ stats.avgDelta[2] = 3

\* C16: readings and optimalCount never decrease, and stats changes only in a
\* step that completes a cycle with a result, which raises readings by 1;
\* message handling, failed cycles, error and close events, reconnection and
\* stop() leave stats as it is.
C16_StatsChangeOnlyOnResult ==
    [][/\ stats'.readings >= stats.readings
       /\ stats'.optimalCount >= stats.optimalCount
       /\ stats' # stats =>
             (last'.op = "result" /\ stats'.readings = stats.readings + 1)
       /\ last'.op \in {"message", "skip", "failed", "error", "close", "open",
                         "reconnect", "stop", "shutdown"} => stats' = stats]_vars
\* stop() after a reading, with a later cycle still in flight
C16_Witness ==
    /\ last.op = "stop" /\ stats.readings = 1 /\ stats.optimalCount = 1
    /\ tasks # <<>>

\* the estimates a cycle of mode m makes on history h for task t
EstimatesOn(m, h, t) ==
    IF m = "market"
    THEN <<calculateEtaPolymarket(h),
           calculateLambdaPolymarket(t.bid, t.ask, h[Len(h)], Unit - h[Len(h)])>>
    ELSE <<calculateEta(h), calculateLambdaFromMomentum(h)>>

\* C17: a cycle appends its price, then runs the estimators on the history
\* that ends with that price, then issues the external computation with those
\* estimates; stats and alerts are untouched until the result is there, and
\* the result step applies updateStats to that cycle's result and makes the
\* alert check on it.  This holds for overlapping push cycles as well.
C17_CycleStepOrder ==
    [][/\ last'.op \in {"message", "cycle", "simulatedCycle"} =>
             LET t == tasks'[last'.id]
                 h == priceHistory'
             IN  /\ h # <<>>
                 /\ h = LastN(Append(priceHistory, h[Len(h)]),
                              Min(Len(priceHistory) + 1, maxHistorySize))
                 /\ <<t.eta, t.lambda>> = EstimatesOn(mode, h, t)
                 /\ t.pc = "computeDelta"
                 /\ t.calls = <<[fn |-> "computeDelta",
                                 args |-> <<Scaled(t.eta), Scaled(t.lambda)>>,
                                 ret |-> <<>>]>>
                 /\ stats' = stats /\ alerts' = alerts
       /\ last'.op = "result" =>
             LET t == tasks[last'.id]
             IN  /\ t.pc = "isOptimal"
                 /\ stats' = updateStats(stats, Result([t EXCEPT !.opt = last'.opt]))
                 /\ alerts' = alerts + (IF last'.opt THEN 1 ELSE 0)]_vars
\* push mode: two cycles overlap, the first estimated on a history of 9 prices
\* (default eta) and the second on its own history of 10 (eta from volatility)
C17_Witness ==
    /\ mode = "ws" /\ last.op = "message" /\ last.id = 2
    /\ 1 \in DOMAIN tasks
    /\ tasks[1].eta = NeutralDefault
    /\ tasks[2].eta = 900
    /\ Len(priceHistory) = EtaMinHistory

\* C18: calculateEta (of both monitors) returns exactly 0.707 for every
\* history of fewer than 10 prices, whatever the prices, and the value of the
\* volatility formula from 10 prices on (0.9 for a history of equal prices).
C18_ShortHistoryGivesDefault ==
    (est # <<>> /\ est.of = "history") =>
        /\ Len(priceHistory) < EtaMinHistory =>
              (est.eta = NeutralDefault /\ est.etaPolymarket = NeutralDefault)
        /\ (Len(priceHistory) >= EtaMinHistory
               /\ \A i \in 1..Len(priceHistory) : priceHistory[i] = BasePrice) =>
              (est.eta = 900 /\ est.etaPolymarket = 900)
\* nine prices, one of them unparseable: the default all the same
C18_Witness ==
    /\ est # <<>> /\ est.of = "history"
    /\ Len(priceHistory) = EtaMinHistory - 1
    /\ IsNaN(priceHistory[5])
    /\ est.eta = NeutralDefault

InRange(x) == ClampLo <= x /\ x <= ClampHi

\* C19: every value an estimator returns lies in [0.1, 0.95], for histories
\* with a zero or unparseable price as well, and for all volumes.
C19_EstimatesInRange ==
    est # <<>> =>
        IF est.of = "history"
        THEN /\ InRange(est.eta) /\ InRange(est.etaPolymarket)
             /\ InRange(est.lambdaFromMomentum)
             /\ InRange(est.lambdaFromMomentumPolymarket)
        ELSE /\ InRange(est.lambda) /\ InRange(est.lambdaPolymarket)
             /\ InRange(est.lambdaFromOrderbook)

Valid(h) ==
    /\ \A i \in 1..Len(h) : ~IsNaN(h[i])
    /\ \A i \in 1..(Len(h) - 1) : h[i] # 0

\* C20: among histories of one length >= 10, a higher return volatility never
\* gives a higher eta; eta is 0.9 at zero volatility and 0.3 + 0.6 / 11 once
\* 100 * volatility has reached 1.
C20_EtaNonIncreasingInVolatility ==
    (est # <<>> /\ est.of = "history" /\ Len(priceHistory) >= EtaMinHistory
        /\ Valid(priceHistory)) =>
        LET v == Volatility(Returns(priceHistory))
        IN  /\ \A h \in HistoriesOfLen(Len(priceHistory)) :
                  (Valid(h) /\ Volatility(Returns(h)) > v) => calculateEta(h) <= est.eta
            /\ v = 0 => est.eta = 900
            /\ v >= SatVol => est.eta = 300 + (600 * Unit) \div (11 * Unit)
\* a history of 10 prices with a volatility between zero and saturation, and
\* a more volatile one of the same length with a strictly lower eta
C20_Witness ==
    /\ est # <<>> /\ est.of = "history"
    /\ Len(priceHistory) = EtaMinHistory /\ Valid(priceHistory)
    /\ Volatility(Returns(priceHistory)) > 0
    /\ Volatility(Returns(priceHistory)) < SatVol
    /\ \E h \in HistoriesOfLen(EtaMinHistory) :
          /\ Valid(h)
          /\ Volatility(Returns(h)) > Volatility(Returns(priceHistory))
          /\ calculateEta(h) < est.eta

\* C21: the imbalance estimators return 0.707 when both volumes are 0, and
\* otherwise 0.3 + 0.6 * coupling within [0.1, 0.95], where coupling is
\* |bid - ask| / (bid + ask) in MarketMonitor and the average of that with
\* max(0, 1 - 2 * |yesPrice - noPrice|) in PolymarketMonitor (checked against
\* the exact quotient, two thousandths of truncation allowed).
C21_LambdaFromImbalance ==
    (est # <<>> /\ est.of = "volumes") =>
        LET total == est.bidVolume + est.askVolume
            gap == Abs(est.bidVolume - est.askVolume)
            spreadFactor == Max(0, Unit - 2 * Abs(est.yesPrice - est.noPrice))
        IN  IF total = 0
            THEN est.lambda = NeutralDefault /\ est.lambdaPolymarket = NeutralDefault
            ELSE /\ InRange(est.lambda) /\ InRange(est.lambdaPolymarket)
                 /\ Abs(est.lambda * total - (300 * total + 600 * gap)) <= 2 * total
                 /\ Abs(2 * est.lambdaPolymarket * total
                            - (600 * total + 600 * gap
                                  + ((600 * spreadFactor) \div Unit) * total))
                        <= 4 * total
\* volumes 600 against 1800 at prices 0.8 and 0.2: coupling 0.5 in
\* MarketMonitor, and (0.5 + 0) / 2 in PolymarketMonitor
C21_Witness ==
    /\ est # <<>> /\ est.of = "volumes"
    /\ est.bidVolume = 600 /\ est.askVolume = 1800 /\ est.yesPrice = 800
    /\ est.lambda = 600
    /\ est.lambdaPolymarket = 450

\* C22: calculateLambdaFromMomentum of either monitor returns 0.707 for a
\* history shorter than 20; from 20 prices on it returns
\* 0.3 + min(5 * |(last - first) / first|, 0.6) for first = history[length - 20]
\* and last = history[length - 1] (stated here for a positive first price and
\* a last price that is a number), and the value is the one the trailing 20
\* prices alone give.
C22_MomentumFromTrailingWindow ==
    (est # <<>> /\ est.of = "history") =>
        IF Len(priceHistory) < MomentumWindow
        THEN /\ est.lambdaFromMomentum = NeutralDefault
             /\ est.lambdaFromMomentumPolymarket = NeutralDefault
        ELSE LET first == Num(priceHistory[Len(priceHistory) - MomentumWindow + 1])
                 newest == Num(priceHistory[Len(priceHistory)])
                 trailing == LastN(priceHistory, MomentumWindow)
             IN  /\ est.lambdaFromMomentum = calculateLambdaFromMomentum(trailing)
                 /\ est.lambdaFromMomentumPolymarket
                        = calculateLambdaFromMomentumPolymarket(trailing)
                 /\ (first > 0 /\ ~IsNaN(newest)) =>
                        LET expected ==
                                300 + Min((5 * Abs(newest - first) * Unit) \div first, 600)
                        IN  /\ est.lambdaFromMomentum = expected
                            /\ est.lambdaFromMomentumPolymarket = expected

\* C23: the two integers a cycle passes to computeDelta are eta * 1e9 and
\* lambda * 1e9, and for every pair of estimates a cycle computes both lie in
\* [100000000, 950000000].
C23_ScaledArgsInDomain ==
    \A id \in DOMAIN tasks :
        \A k \in 1..Len(tasks[id].calls) :
            LET c == tasks[id].calls[k]
            IN  c.fn = "computeDelta" =>
                    /\ c.args = <<Scaled(tasks[id].eta), Scaled(tasks[id].lambda)>>
                    /\ \A j \in 1..2 :
                          /\ ClampLo * ToContractScale <= c.args[j]
                          /\ c.args[j] <= ClampHi * ToContractScale

\* C24: the status shown for a result is optimal when isOptimal, otherwise
\* healthy when delta / 1000 > 0.2 (delta > 200), otherwise suboptimal; and
\* whatever the status, one alert is raised per optimal result and none for
\* any other.
C24_DisplayClassification ==
    /\ Len(shown) = Len(applied)
    /\ \A k \in 1..Len(applied) :
          shown[k] = (CASE applied[k].isOptimal -> "optimal"
                        [] ~applied[k].isOptimal /\ applied[k].delta > 200 -> "healthy"
                        [] OTHER -> "suboptimal")
    /\ alerts = Cardinality({k \in 1..Len(applied) : applied[k].isOptimal})
\* delta 200 without the flag is suboptimal, 201 is healthy, and neither
\* alerts; delta 150 with the flag is optimal and alerts
C24_Witness ==
    /\ Len(applied) = 3
    /\ applied[1].delta = 200 /\ ~applied[1].isOptimal
    /\ applied[2].delta = 201 /\ ~applied[2].isOptimal
    /\ applied[3].delta = 150 /\ applied[3].isOptimal
    /\ shown = <<"suboptimal", "healthy", "optimal">>
    /\ alerts = 1

\* C25: a monitorMarket poll whose market lacks the price and volume fields
\* (the simulated market has none of them) reads price 0.5 and volumes 0,
\* appends that price and goes on to the contract call with lambda = 0.707;
\* so does a real market whose two volumes are absent or zero.
C25_AbsentFieldsGiveDefaults ==
    [][(mode = "market" /\ last'.op \in {"simulatedCycle", "cycle"}) =>
          LET t == tasks'[last'.id]
              h == priceHistory'
          IN  /\ last'.op = "simulatedCycle" =>
                    (h # <<>> /\ h[Len(h)] = 500 /\ t.bid = 0 /\ t.ask = 0)
              /\ (t.bid = 0 /\ t.ask = 0) =>
                    (t.lambda = NeutralDefault /\ t.pc = "computeDelta"
                        /\ Len(t.calls) = 1)]_vars
\* the subgraph was unreachable: the tenth price of the history is the
\* default 0.5 and the cycle waits for computeDelta with lambda 0.707
C25_Witness ==
    /\ mode = "market" /\ last.op = "simulatedCycle"
    /\ last.id \in DOMAIN tasks
    /\ tasks[last.id].lambda = NeutralDefault
    /\ tasks[last.id].pc = "computeDelta"
    /\ Len(priceHistory) = EtaMinHistory
    /\ priceHistory[EtaMinHistory] = 500

\* C26: in push, REST and Polymarket mode alike, the handling of a tick whose
\* payload is not recognized or whose source cannot be reached ends with a
\* reading all the same: a price is appended and computeDelta is called.
C26_FailedTickRunsACycle ==
    [][(\/ last'.op \in {"skip", "apiError", "simulatedCycle"}
        \/ last'.op = "noPrice" /\ source' \in {"binance", "polygon"}) =>
          /\ priceHistory' # <<>>
          /\ priceHistory' = pushPrice(priceHistory, priceHistory'[Len(priceHistory')])
          /\ last'.id \in DOMAIN tasks'
          /\ tasks'[last'.id].pc = "computeDelta"]_vars

\* C27: the reading a cycle takes from a simulated market has a price within
\* [0.1, 0.9] and can be told from the reading of every real market: no real
\* market gives the same price and volumes.
C27_SyntheticReadingIsMarked ==
    [][last'.op = "simulatedCycle" =>
          LET t == tasks'[last'.id]
              h == priceHistory'
              taken == [price |-> h[Len(h)], bidVolume |-> t.bid, askVolume |-> t.ask]
          IN  /\ 100 <= Num(taken.price) /\ Num(taken.price) <= 900
              /\ \A bid \in Volumes, ask \in Volumes, recentPrice \in RecentPrices :
                    Reading(mode, RealMarket(bid, ask, recentPrice)) # taken]_vars

\* C28: while the scenario with eta = lambda = 0 runs, no alert is raised;
\* when one of its contract calls throws, the error is caught, a failed result
\* is appended to the results, and the run goes on: after the delay the loop
\* starts the next scenario.
C28_OriginErrorIsRecorded ==
    [][/\ (tester.index = 2 \/ tester'.index = 2) => alerts' = 0
       /\ (tester.index = 2 /\ tester.pc \in OracleCalls /\ last'.op = "failed") =>
             /\ tester'.results =
                    Append(tester.results,
                           [scenario |-> "Origin (Zero State)", failed |-> TRUE,
                            success |-> FALSE])
             /\ tester'.pc = "delay"
       /\ (tester.index = 2 /\ tester.pc = "delay") =>
             (tester'.pc = "loop" /\ tester'.results = tester.results)
       /\ (tester.index = 2 /\ tester.pc = "loop") =>
             (tester'.index = 3 /\ tester'.pc = "computeDelta"
                 /\ tester'.results = tester.results)]_vars
\* the Origin scenario failed at a contract call and the next scenario has
\* delivered its result
C28_Witness ==
    /\ Len(tester.results) = 3
    /\ tester.results[2] = [scenario |-> "Origin (Zero State)", failed |-> TRUE,
                            success |-> FALSE]
    /\ tester.results[3].scenario = "High Damping"
    /\ ~tester.results[3].failed
    /\ alerts = 0

\* C29: the result of a scenario whose three calls returned reports success
\* exactly when |delta - expectedDelta| <= 5 where expectedDelta is not null,
\* isOptimal = expectedOptimal where expectedOptimal is not null, and the
\* efficiency is between 0% and 100% (0 <= efficiency <= 1e9); with both
\* expectations null only the efficiency decides.
C29_ValidationIffChecksPass ==
    \A k \in 1..Len(tester.results) :
        LET r == tester.results[k]
            scenario == TEST_SCENARIOS[k]
        IN  ~r.failed =>
                /\ r.scenario = scenario.name
                /\ r.validation.success = r.success
                /\ r.success <=>
                      /\ scenario.expectedDelta # <<>> =>
                            Abs(r.delta - scenario.expectedDelta[1]) <= 5
                      /\ scenario.expectedOptimal # <<>> =>
                            r.isOptimal = scenario.expectedOptimal[1]
                      /\ 0 <= r.efficiency /\ r.efficiency <= 1000000000
\* delta 225 passes against the expected 230; an efficiency above 100% fails
\* a scenario whose flag is as expected; the last scenario passes with either
\* flag
C29_Witness ==
    /\ Len(tester.results) = 5
    /\ \A k \in 1..5 : ~tester.results[k].failed
    /\ tester.results[1].delta = 225 /\ tester.results[1].success
    /\ ~tester.results[3].isOptimal /\ tester.results[3].efficiency = 1000000001
    /\ ~tester.results[3].success
    /\ tester.results[5].isOptimal /\ tester.results[5].delta = 236
    /\ tester.results[5].success

\* C30: in REST mode a poll iteration of each of the sources binance, polygon
\* (with its API key set) and alphavantage requests a price from the source,
\* and the iteration that has obtained one appends it and starts a cycle.
C30_EveryRestSourceYieldsReadings ==
    [][(mode' = "rest" /\ source' \in RestSources /\ (source' = "polygon" => apiKey')) =>
          /\ nCycles' = nCycles + 1 =>
                /\ last'.op = "poll"
                /\ last'.id \in DOMAIN tasks'
                /\ tasks'[last'.id].pc = "fetch"
          /\ last'.op = "cycle" =>
                /\ priceHistory' # <<>>
                /\ tasks'[last'.id].pc = "computeDelta"]_vars

\* C31: start() called while the OracleMonitor is running begins no health
\* check, leaves runCount alone and creates no interval timer; and at no time
\* is more than one interval timer of the monitor active.
C31_AtMostOneIntervalTimer ==
    [][/\ (monitor.isRunning /\ last'.op \in {"start", "startIgnored"}) =>
             /\ monitor'.started = monitor.started
             /\ monitor'.runCount = monitor.runCount
             /\ monitor'.intervals = monitor.intervals
             /\ monitor'.checks = monitor.checks
       /\ Cardinality(monitor'.intervals) <= 1]_vars

\* C32: a health check that fails (no connection, or a failed validation)
\* does not stop the OracleMonitor: the step leaves isRunning as it was and
\* clears no interval timer, a failed initial check is still followed by the
\* creation of the interval timer, and while the monitor runs with its timer
\* the timer goes on to begin the next health check.
C32_FailureDoesNotStopMonitor ==
    /\ [][last'.op = "checkFailed" =>
            /\ monitor'.isRunning = monitor.isRunning
            /\ monitor.intervals \subseteq monitor'.intervals
            /\ monitor'.failures = monitor.failures + 1
            /\ Len(monitor'.checks) < Len(monitor.checks) =>
                  (monitor.checks[last'.id].kind = "initial" =>
                       monitor'.intervalId \in monitor'.intervals)]_vars
    /\ \A n \in 0..(MaxChecks - 1) :
          (monitor.isRunning /\ monitor.intervals # {} /\ monitor.started = n)
              ~> (monitor.started > n \/ ~monitor.isRunning)
\* the timer begins a third health check after two failed ones
C32_Witness ==
    /\ monitor.isRunning
    /\ monitor.failures >= 2
    /\ last.op = "tick"
    /\ monitor.started >= 3

\* C33: once stop() has returned, and until a later start() takes the
\* OracleMonitor up again, no health check is begun: no interval timer fires
\* into runSingleTest while the monitor is halted.
C33_NoCheckAfterStop ==
    [][(monitor.halted /\ last'.op # "start") =>
           monitor'.started = monitor.started]_vars

\* C34: once stop() of a MarketMonitor has set isRunning to false, the flag
\* stays false in every later step, whatever event that step handles.
C34_StoppedStaysStopped ==
    [][stopCalled => ~isRunning']_vars

\* C35: in a pull mode, once stop() has cleared isRunning: no step arms a
\* timer; an iteration begins only by using up the armed timer, and at most
\* one timer or iteration is pending, so at most one further iteration begins;
\* every step other than a repeated stop() brings the loop nearer to its end
\* (the awaits left to the pending iteration, an armed timer counting for
\* more than a whole iteration), the pending iteration waiting at an await
\* that settles; when no timer and no iteration is left, nothing runs again.
AwaitsLeft(pc) ==
    CASE pc = "obFetch" -> 7 [] pc = "obJson" -> 6
      [] pc \in {"evFetch", "fetch"} -> 5 [] pc \in {"evJson", "json"} -> 4
      [] pc = "computeDelta" -> 3 [] pc = "efficiency" -> 2 [] pc = "isOptimal" -> 1
      [] OTHER -> 8
RECURSIVE StepsLeft(_)
StepsLeft(ids) ==
    IF ids = {} THEN 0
    ELSE LET id == CHOOSE i \in ids : TRUE
         IN  AwaitsLeft(tasks[id].pc) + StepsLeft(ids \ {id})
Quiet == timers = <<>> /\ DOMAIN tasks = {}
C35_PollLoopTerminates ==
    [][(mode \in PullModes /\ ~isRunning) =>
          /\ Len(timers') <= Len(timers)
          /\ nCycles' > nCycles => Len(timers') < Len(timers)
          /\ Len(timers') + Cardinality(DOMAIN tasks') <= 1
          /\ (last'.op # "stop" /\ mode' \in PullModes) =>
                 8 * Len(timers') + StepsLeft(DOMAIN tasks)'
                     < 8 * Len(timers) + StepsLeft(DOMAIN tasks)
          /\ \A id \in DOMAIN tasks : tasks[id].pc \in FetchSteps \cup OracleCalls
          /\ Quiet => (Quiet' /\ nCycles' = nCycles /\ stats' = stats
                        /\ priceHistory' = priceHistory)]_vars
\* a stopped poll loop at rest after an iteration that ended with a result
C35_Witness ==
    /\ mode \in PullModes /\ ~isRunning /\ stopCalled
    /\ Quiet
    /\ nCycles >= 2
    /\ last.op = "result"

\* C36: in a push-mode run at most one WebSocket is connecting or open in
\* any state, and the step that creates a connection (the reconnect timer
\* firing monitorBinance) finds every earlier connection closed.
C36_OneConnectionAtATime ==
    /\ Cardinality(LiveConns) <= 1
    /\ last.op = "reconnect" =>
          /\ last.id = Len(conns)
          /\ \A c \in 1..(Len(conns) - 1) : conns[c] = "closed"
\* the reconnect timer has made the second connection, the first one closed
C36_Witness ==
    /\ last.op = "reconnect"
    /\ Len(conns) >= 2
    /\ conns[1] = "closed"
    /\ conns[Len(conns)] = "connecting"

\* C37: the step in which a cycle's contract call fails leaves priceHistory
\* and stats as they were, and the entry that cycle appended is the newest
\* entry of priceHistory.
\* EntryOf: every cycle begun appends one entry, so the entry of cycle id lies
\* one place further back for every cycle begun after it
EntryOf(id) == Len(priceHistory) - (nCycles - id)
C37_FailedCycleKeepsItsPrice ==
    [][last'.op = "failed" =>
          /\ priceHistory' = priceHistory
          /\ stats' = stats
          /\ EntryOf(last'.id) = Len(priceHistory')]_vars

C39_OptimalCountWithinReadings ==
    /\ 0 <= stats.optimalCount
    /\ stats.optimalCount <= stats.readings
    /\ Len(shown) <= stats.readings
    /\ shown # <<>> => stats.readings >= 1
\* every reading so far was optimal: optimalCount has reached readings
C39_Witness ==
    /\ stats.readings >= 2
    /\ stats.optimalCount = stats.readings
    /\ Len(shown) = stats.readings

====
